---- MODULE Spec2Model ----
(***************************************************************************)
(* Wishlist synchronizer of the browser-extension popup: the Wishlist      *)
(* component (apps/plasmo/src/components/main.tsx), the get-wishlist-data  *)
(* message handler, the process-page-data message handler and the remote   *)
(* relational store they talk to.                                          *)
(*                                                                         *)
(* Modelling conventions                                                   *)
(*  - every `await` of the source is a step boundary: one action runs the  *)
(*    code from one suspension point to the next;                          *)
(*  - the value rendered by useStorage is the stored value (the hook keeps *)
(*    a ref to the latest value, so functional updates see the current     *)
(*    one);                                                                *)
(*  - null is 0 for ids, "null" for image_url, NoPrice for price;          *)
(*  - a membership row's created_at is its insertion sequence number.      *)
(***************************************************************************)
EXTENDS Integers, Sequences, FiniteSets, TLC

\* ------------------------------------------------------------------ bounds
MaxTicks == 2
MaxRefresh == 1
MaxHistory == 7
MaxPrices == 3

\* --------------------------------------------------------------- constants
DebounceMs == 1000
NewProductWindowMs == 1000
TickMs == 500
StartTime == 2000

NoId == 0
NoPrice == -1
NoImage == "null"
WID == 1

Bases == {"a", "b"}
Queries == {"", "q"}
Urls == [base : Bases, query : Queries]
Amounts == {0, 5}
ProductIds == 1..Cardinality(Urls)
RefreshIds == 1..MaxRefresh

\* error messages set by the popup
ErrLoad == "Failed to load items. Please try again."
ErrDelMissing == "Cannot delete item: missing wishlist item ID."
ErrDelFailed == "Failed to delete item. Please try again."
ErrDelThrown == "An error occurred while deleting the item."
ErrFavRemove == "Failed to remove from favorites."
ErrFavAdd == "Failed to add to favorites."
ErrFavThrown == "An error occurred while updating favorites."
ErrNoWishlist == "No wishlist found. Please try again."
ErrNoTab == "No active tab found. Please try again."
ErrProduct == "Failed to create or find product. Please try again."
ErrDuplicate == "Item already exists in your wishlist."
ErrAddItem == "Failed to add item to wishlist. Please try again."
ErrDetails == "Failed to fetch product details. Please try again."
ErrExtract == "Failed to extract page content. Please try again."
ErrAddThrown == "An error occurred while adding the page."
NoError == "null"

\* ----------------------------------------------------------- pure helpers

\* a cleanUrl that keeps the query string
cleanUrlKeepQuery(url) == url

\* cleanUrl: URI(url).query("").toString()
cleanUrl(url) == [url EXCEPT !.query = ""]

\* item.products.prices?.[0]?.amount || null
firstPrice(prices) ==
  IF Len(prices) > 0 /\ prices[1].amount # 0 THEN prices[1].amount ELSE NoPrice

\* one element of formattedItems: a joined membership row -> cache entry
formatItem(row) ==
  [ id               |-> row.products.id,
    wishlist_item_id |-> row.id,
    image_url        |-> row.products.image_url,
    created_at       |-> row.created_at,
    price            |-> firstPrice(row.products.prices),
    prices           |-> row.products.prices ]

formattedItems(itemsData) ==
  [i \in 1..Len(itemsData) |-> formatItem(itemsData[i])]

\* .order("created_at", { ascending: false }) over a set of rows
RECURSIVE orderDesc(_)
orderDesc(rows) ==
  IF rows = {} THEN << >>
  ELSE LET top == CHOOSE r \in rows : \A s \in rows : s.created_at <= r.created_at
       IN  <<top>> \o orderDesc(rows \ {top})

\* items.filter(pred) for pred = (item.id # itemId)
RECURSIVE filterOut(_, _)
filterOut(items, itemId) ==
  IF items = << >> THEN << >>
  ELSE IF Head(items).id = itemId THEN filterOut(Tail(items), itemId)
       ELSE <<Head(items)>> \o filterOut(Tail(items), itemId)

\* items.find((i) => i.id === itemId); index 0 when absent
findItem(items, itemId) ==
  IF \E i \in 1..Len(items) : items[i].id = itemId
  THEN CHOOSE i \in 1..Len(items) :
         items[i].id = itemId /\ \A j \in 1..(i-1) : items[j].id # itemId
  ELSE 0

\* a deleteItem that falls back to the product id when the reference is missing
wishlistItemIdAnyway(items, itemId) ==
  IF findItem(items, itemId) = 0 THEN itemId
  ELSE IF items[findItem(items, itemId)].wishlist_item_id = NoId THEN itemId
  ELSE items[findItem(items, itemId)].wishlist_item_id

\* item?.wishlist_item_id for the entry deleteItem finds, NoId when undefined
resolveWishlistItemId(items, itemId) ==
  IF findItem(items, itemId) = 0 THEN NoId
  ELSE items[findItem(items, itemId)].wishlist_item_id

\* the cache after the response of the remote delete, were it removed regardless
itemsAfterDeleteOptimistic(res, prevItems, itemId) == filterOut(prevItems, itemId)

\* if (error) return; setItems((prevItems) => prevItems.filter(...)); catch {}
itemsAfterDelete(res, prevItems, itemId) ==
  IF res = "ok" THEN filterOut(prevItems, itemId) ELSE prevItems

\* the favorite set mirrored without looking at the remote result
favoritesAfterToggleOptimistic(res, isFavorited, prev, productId) ==
  IF isFavorited THEN prev \ {productId} ELSE prev \cup {productId}

\* if (error) return; setFavoriteItems((prev) => ...delete / add...); catch {}
favoritesAfterToggle(res, isFavorited, prev, productId) ==
  IF res # "ok" THEN prev
  ELSE IF isFavorited THEN prev \ {productId} ELSE prev \cup {productId}

\* a placeholder put at the end of the list
appendLast(newItem, prevItems) == prevItems \o <<newItem>>

\* setItems((prevItems) => [newItem, ...prevItems])
prepend(newItem, prevItems) == <<newItem>> \o prevItems

\* an updater that waits for a price instead of an image
clearProcessedByPrice(prev, items) ==
  { p \in prev : ~ \E i \in 1..Len(items) : items[i].id = p /\ items[i].price # NoPrice }

\* the updater of the [items] effect: drop ids whose entry has an image_url
clearProcessed(prev, items) ==
  { p \in prev : ~ \E i \in 1..Len(items) : items[i].id = p /\ items[i].image_url # NoImage }

\* a debounce test that never rejects
debouncedNever(t, lastAdd) == t - lastAdd < 0

\* now - lastAddTime < 1000
debounced(t, lastAdd) == t - lastAdd < DebounceMs

\* ------------------------------------------------- PriceDiscoveryBadges

\* an optional prop that was not passed
Undefined == -1

\* JavaScript truthiness of an optional numeric prop: undefined and 0 are falsy
truthy(x) == x # Undefined /\ x # 0

\* array.slice(-n): the last n elements, all of them when there are fewer
sliceLast(s, n) == SubSeq(s, IF Len(s) > n THEN Len(s) - n + 1 ELSE 1, Len(s))

\* array.slice(0, n) for n >= 0
sliceFirst(s, n) == SubSeq(s, 1, IF Len(s) > n THEN n ELSE Len(s))

\* prices.reduce((a, b) => a + b, 0)
RECURSIVE reduceSum(_)
reduceSum(s) == IF s = << >> THEN 0 ELSE Head(s) + reduceSum(Tail(s))

\* Math.max(...prices), Math.min(...prices) of a non-empty array
maxPrice(s) == CHOOSE m \in { s[i] : i \in 1..Len(s) } : \A i \in 1..Len(s) : s[i] <= m
minPrice(s) == CHOOSE m \in { s[i] : i \in 1..Len(s) } : \A i \in 1..Len(s) : m <= s[i]

\* a target test that needs the price strictly under the target
targetReachedStrict(currentPrice, targetPrice) ==
  truthy(targetPrice) /\ currentPrice < targetPrice

\* targetPrice && currentPrice <= targetPrice
targetReached(currentPrice, targetPrice) ==
  truthy(targetPrice) /\ currentPrice <= targetPrice

\* a deal test averaging the whole history instead of its last five points
dealAlertWholeHistory(currentPrice, priceHistory) ==
  /\ Len(priceHistory) >= 3
  /\ currentPrice * 10 * Len(priceHistory) <= 9 * reduceSum(priceHistory)

\* priceHistory.length >= 3 and currentPrice <= avgRecentPrice * 0.9, where
\* avgRecentPrice is the mean of priceHistory.slice(-5); the comparison is
\* written without the division: c <= (sum / n) * 9 / 10
dealAlert(currentPrice, priceHistory) ==
  /\ Len(priceHistory) >= 3
  /\ LET recentPrices == sliceLast(priceHistory, 5)
     IN  currentPrice * 10 * Len(recentPrices) <= 9 * reduceSum(recentPrices)

\* previousPrice && previousPrice !== currentPrice
priceChanged(currentPrice, previousPrice) ==
  truthy(previousPrice) /\ previousPrice # currentPrice

\* a label that omits the "+" of an increase
changeTextNoPlus(currentPrice, previousPrice) ==
  LET change == currentPrice - previousPrice
      mag == IF change < 0 THEN -change ELSE change
      tenths == (mag * 2000 + previousPrice) \div (2 * previousPrice)
  IN  (IF change < 0 THEN "-" ELSE "") \o ToString(tenths \div 10) \o "."
        \o ToString(tenths % 10) \o "%"

\* `${isDecrease ? "" : "+"}${((change / previousPrice) * 100).toFixed(1)}%`
\* for previousPrice > 0: toFixed(1) writes the sign of a negative number and
\* rounds the magnitude to the nearest tenth, halves up
changeText(currentPrice, previousPrice) ==
  LET change == currentPrice - previousPrice
      isDecrease == change < 0
      mag == IF isDecrease THEN -change ELSE change
      tenths == (mag * 2000 + previousPrice) \div (2 * previousPrice)
      changePercent == (IF isDecrease THEN "-" ELSE "") \o ToString(tenths \div 10)
                         \o "." \o ToString(tenths % 10)
  IN  (IF isDecrease THEN "" ELSE "+") \o changePercent \o "%"

\* a volatility test that also fires at exactly 15
volatileAtLeast(priceHistory) ==
  /\ Len(priceHistory) >= 7
  /\ LET prices == sliceLast(priceHistory, 7)
     IN  (maxPrice(prices) - minPrice(prices)) * 100 >= 15 * minPrice(prices)

\* priceHistory.length >= 7 and ((max - min) / min) * 100 > 15 over
\* priceHistory.slice(-7), for prices >= 0 (a zero minimum divides to Infinity,
\* or to NaN when the maximum is zero too)
volatile(priceHistory) ==
  /\ Len(priceHistory) >= 7
  /\ LET prices == sliceLast(priceHistory, 7)
     IN  (maxPrice(prices) - minPrice(prices)) * 100 > 15 * minPrice(prices)

targetBadge ==
  [ key |-> "target-reached", variant |-> "default", icon |-> "Target",
    text |-> "Target Hit",
    className |-> "bg-emerald-100 text-emerald-800 border-emerald-300",
    priority |-> 1 ]

dealBadge ==
  [ key |-> "deal-alert", variant |-> "default", icon |-> "Target",
    text |-> "Deal!",
    className |-> "bg-blue-100 text-blue-800 border-blue-300 animate-pulse",
    priority |-> 2 ]

changeBadge(currentPrice, previousPrice) ==
  LET isDecrease == currentPrice - previousPrice < 0
  IN  [ key |-> "price-change",
        variant |-> IF isDecrease THEN "default" ELSE "destructive",
        icon |-> IF isDecrease THEN "TrendingDown" ELSE "TrendingUp",
        text |-> changeText(currentPrice, previousPrice),
        className |-> IF isDecrease
                      THEN "bg-green-100 text-green-800 border-green-300"
                      ELSE "bg-red-100 text-red-800 border-red-300",
        priority |-> 3 ]

volatilityBadge ==
  [ key |-> "volatility", variant |-> "outline", icon |-> "AlertTriangle",
    text |-> "Volatile", className |-> "text-orange-600 border-orange-300",
    priority |-> 4 ]

\* badges.sort((a, b) => a.priority - b.priority): a stable sort
RECURSIVE sortByPriority(_)
sortByPriority(badges) ==
  IF badges = << >> THEN << >>
  ELSE LET i == CHOOSE k \in 1..Len(badges) :
                   /\ \A j \in 1..Len(badges) : badges[k].priority <= badges[j].priority
                   /\ \A j \in 1..(k-1) : badges[j].priority # badges[k].priority
       IN  <<badges[i]>> \o sortByPriority(SubSeq(badges, 1, i-1)
                                            \o SubSeq(badges, i+1, Len(badges)))

\* a selection that keeps the last maxBadges badges
prioritizedLast(badges, maxBadges) ==
  sliceLast(sortByPriority(badges), IF maxBadges = Undefined THEN 2 ELSE maxBadges)

\* badges.sort(...).slice(0, maxBadges), maxBadges = 2 when not passed
prioritized(badges, maxBadges) ==
  sliceFirst(sortByPriority(badges), IF maxBadges = Undefined THEN 2 ELSE maxBadges)

\* the badges PriceDiscoveryBadges renders, << >> when it returns null
PriceDiscoveryBadges(p) ==
  LET badges ==
        (IF targetReached(p.currentPrice, p.targetPrice)
         THEN <<targetBadge>> ELSE << >>)
        \o (IF dealAlert(p.currentPrice, p.priceHistory)
            THEN <<dealBadge>> ELSE << >>)
        \o (IF priceChanged(p.currentPrice, p.previousPrice)
            THEN <<changeBadge(p.currentPrice, p.previousPrice)>> ELSE << >>)
        \o (IF volatile(p.priceHistory) THEN <<volatilityBadge>> ELSE << >>)
  IN  prioritized(badges, p.maxBadges)


VARIABLES
  \* remote relational store
  wishlistRow,      \* the user has a row in "wishlists"
  products,         \* sequence of product rows, row i has id i
  wishlist_items,   \* set of membership rows of wishlist WID
  favorites,        \* set of product ids in "favorites" for the user
  nextMid,          \* next membership id / insertion sequence number
  \* persisted local state (chrome.storage.local)
  wishlistItems, wishlistId, dataNeedsRefresh,
  \* React state of the Wishlist component
  loading, extracting, lastAddTime, error, processingItems, favoriteItems,
  \* pending effects
  effectDue, procEffectDue,
  \* clock read by Date.now()
  now,
  \* get-wishlist-data handler instances and pending loadFavorites calls
  gw, lf,
  \* deleteItem, toggleFavorite, addCurrentPage invocations in flight
  dl, tg, ad,
  \* process-page-data: undelivered messages and handler instances
  bgInbox, bg,
  \* time of the latest addCurrentPage invocation and a bit flipped by each
  lastInvoke, invokeBit,
  \* the handler whose storage.set wrote wishlistId / wishlistItems last, and
  \* the popup refreshes that were under way when dataNeedsRefresh was set
  idWriter, itemsWriter, olderRefreshes,
  \* a message handed to a background handler, and the handler's answer to it
  request, response,
  \* the props of a PriceDiscoveryBadges call and what it rendered
  props, badgeView,
  \* a result of the wishlist_items query and the entries formatted from it
  itemsData, formatted

remoteVars == <<wishlistRow, products, wishlist_items, favorites, nextMid>>
storageVars == <<wishlistItems, wishlistId, dataNeedsRefresh>>
reactVars == <<loading, extracting, lastAddTime, error, processingItems, favoriteItems>>
effectVars == <<effectDue, procEffectDue>>
procVars == <<gw, lf, dl, tg, ad, bgInbox, bg>>
ghostVars == <<lastInvoke, invokeBit>>
writerVars == <<idWriter, itemsWriter, olderRefreshes>>
pureVars == <<props, badgeView, itemsData, formatted, request, response>>
vars == <<remoteVars, storageVars, reactVars, effectVars, now, procVars, ghostVars,
          writerVars, pureVars>>


\* ------------------------------------------------------------ remote store

\* wishlist_items.select("id, created_at, products(id, ..., image_url, prices(...))")
\*   .eq("wishlist_id", wishlistData.id).order("created_at", {ascending: false})
joinedRow(m) ==
  [ id         |-> m.id,
    created_at |-> m.created_at,
    products   |-> [ id        |-> products[m.product_id].id,
                     image_url |-> products[m.product_id].image_url,
                     prices    |-> products[m.product_id].prices ] ]

selectWishlistItems == orderDesc({ joinedRow(m) : m \in wishlist_items })

\* ------------------------------------------------------------------- Init

seedProduct ==
  [ id |-> 1, source_url |-> [base |-> "a", query |-> ""], image_url |-> "img",
    prices |-> << [amount |-> 5, created_at |-> 1] >>, created_at |-> 0 ]
seedMembership == [ id |-> 1, product_id |-> 1, created_at |-> 1 ]
seedCache == formattedItems(<< [ id |-> 1, created_at |-> 1,
                                 products |-> [ id |-> 1, image_url |-> "img",
                                                prices |-> seedProduct.prices ] ] >>)
\* an entry persisted without its membership id
legacyCache == << [ seedCache[1] EXCEPT !.wishlist_item_id = NoId ] >>

idleGw == [ pc |-> "idle", data |-> << >>, ok |-> FALSE ]
idleDl == [ pc |-> "idle", itemId |-> NoId, wid |-> NoId, res |-> "none" ]
idleTg == [ pc |-> "idle", productId |-> NoId, isFavorited |-> FALSE, res |-> "none" ]
idleAd == [ pc |-> "idle", wishlistId |-> NoId, url |-> [base |-> "a", query |-> ""],
            productId |-> NoId, isNewProduct |-> FALSE, mid |-> NoId, mcreated |-> 0,
            res |-> "none" ]
idleBg == [ pc |-> "idle", data |-> << >>, res |-> "none" ]

\* the persisted storage and the remote store found when the popup opens:
\* a first run, a returning session, or a cache left behind for an account
\* whose wishlist row is gone (dataNeedsRefresh may have been left set by an
\* enrichment that finished after the popup closed)
InitStore ==
  \/ /\ wishlistRow \in BOOLEAN
     /\ products = << >> /\ wishlist_items = {} /\ nextMid = 1
     /\ wishlistItems = << >> /\ wishlistId = NoId
     /\ dataNeedsRefresh = "undefined"
  \/ /\ wishlistRow = TRUE
     /\ products = <<seedProduct>> /\ wishlist_items = {seedMembership} /\ nextMid = 2
     /\ wishlistItems = seedCache /\ wishlistId = WID
     /\ dataNeedsRefresh = "undefined"
  \/ /\ wishlistRow = FALSE
     /\ products = <<seedProduct>> /\ wishlist_items = {} /\ nextMid = 2
     /\ wishlistItems \in {seedCache, legacyCache} /\ wishlistId = WID
     /\ dataNeedsRefresh \in {"undefined", "true"}

\* no storage write by a refresh yet
noWriter == [by |-> "none", n |-> 0]

\* no PriceDiscoveryBadges call and no formatting under observation
idleProps ==
  [ currentPrice |-> 0, previousPrice |-> Undefined, priceHistory |-> << >>,
    targetPrice |-> Undefined, maxBadges |-> Undefined ]
idleView == [ rendered |-> FALSE, badges |-> << >> ]
idleFormat == [ done |-> FALSE, items |-> << >> ]
noRequest == [ name |-> "none", body |-> [ userId |-> FALSE ] ]
noResponse == [ sent |-> FALSE, success |-> FALSE, error |-> NoError ]

pureIdle ==
  /\ props = idleProps /\ badgeView = idleView
  /\ itemsData = << >> /\ formatted = idleFormat
  /\ request = noRequest /\ response = noResponse

InitPopup ==
  /\ InitStore
  /\ favorites = {}
  /\ loading = TRUE /\ extracting = FALSE /\ lastAddTime = 0
  /\ error = NoError /\ processingItems = {} /\ favoriteItems = {}
  /\ effectDue = TRUE /\ procEffectDue = TRUE
  /\ now = StartTime
  /\ gw = [r \in RefreshIds |-> idleGw] /\ lf = 0
  /\ dl = idleDl /\ tg = idleTg /\ ad = idleAd
  /\ bgInbox = [p \in ProductIds |-> 0] /\ bg = [p \in ProductIds |-> idleBg]
  /\ lastInvoke = 0 /\ invokeBit = FALSE
  /\ idWriter = noWriter /\ itemsWriter = noWriter /\ olderRefreshes = {}

Init == InitPopup /\ pureIdle

\* ------------------------------------------------------- effect scheduling

\* a change of a dependency re-runs the effect after the render
DepsChanged ==
  <<wishlistItems, wishlistId, dataNeedsRefresh>>' # <<wishlistItems, wishlistId, dataNeedsRefresh>>
Schedule ==
  /\ effectDue' = (effectDue \/ DepsChanged)
  /\ procEffectDue' = (procEffectDue \/ wishlistItems' # wishlistItems)

\* ----------------------------------------------------- refreshData / effect

\* refreshData: setLoading(true); setError(null); send get-wishlist-data;
\* loadFavorites()
refreshData(r) ==
  /\ gw[r].pc = "idle"
  /\ loading' = TRUE
  /\ error' = NoError
  /\ gw' = [gw EXCEPT ![r] = [idleGw EXCEPT !.pc = "wishlists"]]
  /\ lf' = IF lf < MaxRefresh THEN lf + 1 ELSE lf

\* useEffect(..., [user.id, items, wishlistId, dataNeedsRefresh])
RefreshEffect ==
  /\ effectDue
  /\ UNCHANGED <<writerVars, pureVars>>
  /\ IF wishlistItems = << >> \/ wishlistId = NoId
     THEN /\ \E r \in RefreshIds : refreshData(r)
          /\ UNCHANGED dataNeedsRefresh
     ELSE IF dataNeedsRefresh = "true"
     THEN /\ \E r \in RefreshIds : refreshData(r)
          /\ dataNeedsRefresh' = "false"
     ELSE /\ loading' = FALSE
          /\ UNCHANGED <<error, gw, lf, dataNeedsRefresh>>
  /\ UNCHANGED <<remoteVars, wishlistItems, wishlistId, extracting, lastAddTime,
                 processingItems, favoriteItems, procEffectDue, now, dl, tg, ad,
                 bgInbox, bg, ghostVars>>
  /\ effectDue' = DepsChanged

\* useEffect(..., [items]): drop the ids whose cached entry has an image_url
ProcessingEffect ==
  /\ procEffectDue
  /\ UNCHANGED <<writerVars, pureVars>>
  /\ processingItems' = clearProcessed(processingItems, wishlistItems)
  /\ procEffectDue' = FALSE
  /\ UNCHANGED <<remoteVars, storageVars, loading, extracting, lastAddTime, error,
                 favoriteItems, effectDue, now, procVars, ghostVars>>

\* loadFavorites: favorites.select("product_id").eq("user_id", user.id)
LoadFavorites ==
  /\ lf > 0
  /\ UNCHANGED <<writerVars, pureVars>>
  /\ \E ok \in BOOLEAN :
       favoriteItems' = IF ok THEN favorites ELSE favoriteItems
  /\ lf' = lf - 1
  /\ UNCHANGED <<remoteVars, storageVars, loading, extracting, lastAddTime, error,
                 processingItems, effectVars, now, gw, dl, tg, ad, bgInbox, bg,
                 ghostVars>>

\* ------------------------------------------- get-wishlist-data handler (gw)

\* a handler that goes on to the items query whatever the lookup returned
GwWishlistsUnchecked(r) ==
  /\ gw[r].pc = "wishlists"
  /\ UNCHANGED <<writerVars, pureVars>>
  /\ gw' = [gw EXCEPT ![r].pc = "items", ![r].ok = FALSE]
  /\ UNCHANGED <<remoteVars, storageVars, reactVars, effectVars, now, lf, dl, tg, ad,
                 bgInbox, bg, ghostVars>>

\* wishlists.select("id").eq("user_id", userId).limit(1).single()
GwWishlists(r) ==
  /\ gw[r].pc = "wishlists"
  /\ UNCHANGED <<writerVars, pureVars>>
  /\ \E fail \in BOOLEAN :
       gw' = [gw EXCEPT ![r].pc = IF wishlistRow /\ ~fail THEN "items" ELSE "respond",
                        ![r].ok = FALSE]
  /\ UNCHANGED <<remoteVars, storageVars, reactVars, effectVars, now, lf, dl, tg, ad,
                 bgInbox, bg, ghostVars>>

\* the wishlist_items query; an error is thrown to the catch
GwItems(r) ==
  /\ gw[r].pc = "items"
  /\ UNCHANGED <<writerVars, pureVars>>
  /\ \E fail \in BOOLEAN :
       gw' = IF fail THEN [gw EXCEPT ![r].pc = "respond", ![r].ok = FALSE]
             ELSE [gw EXCEPT ![r].pc = "set_id", ![r].data = selectWishlistItems]
  /\ UNCHANGED <<remoteVars, storageVars, reactVars, effectVars, now, lf, dl, tg, ad,
                 bgInbox, bg, ghostVars>>

\* await storage.set("wishlistId", wishlistData.id)
gwStoreId(r) ==
  /\ gw[r].pc = "set_id"
  /\ UNCHANGED pureVars
  /\ wishlistId' = WID
  /\ gw' = [gw EXCEPT ![r].pc = "set_items"]
  /\ UNCHANGED <<remoteVars, wishlistItems, dataNeedsRefresh, reactVars, now, lf, dl,
                 tg, ad, bgInbox, bg, ghostVars>>
  /\ Schedule

GwSetId(r) == gwStoreId(r) /\ UNCHANGED writerVars

\* the same step, recording which handler wrote
GwSetIdLogged(r) ==
  /\ gwStoreId(r)
  /\ idWriter' = [by |-> "get-wishlist-data", n |-> r] /\ UNCHANGED <<itemsWriter, olderRefreshes>>

\* await storage.set("wishlistItems", formattedItems); res.send({success: true})
gwStoreItems(r) ==
  /\ gw[r].pc = "set_items"
  /\ UNCHANGED pureVars
  /\ wishlistItems' = formattedItems(gw[r].data)
  /\ gw' = [gw EXCEPT ![r].pc = "respond", ![r].ok = TRUE]
  /\ UNCHANGED <<remoteVars, wishlistId, dataNeedsRefresh, reactVars, now, lf, dl,
                 tg, ad, bgInbox, bg, ghostVars>>
  /\ Schedule

GwSetItems(r) == gwStoreItems(r) /\ UNCHANGED writerVars

\* the same step, recording which handler wrote
GwSetItemsLogged(r) ==
  /\ gwStoreItems(r)
  /\ itemsWriter' = [by |-> "get-wishlist-data", n |-> r] /\ UNCHANGED <<idWriter, olderRefreshes>>

\* refreshData's .then((response) => ...)
gwAnswered(r) ==
  /\ gw[r].pc = "respond"
  /\ UNCHANGED pureVars
  /\ error' = IF gw[r].ok THEN error ELSE ErrLoad
  /\ loading' = FALSE
  /\ dataNeedsRefresh' = "false"
  /\ gw' = [gw EXCEPT ![r] = idleGw]
  /\ UNCHANGED <<remoteVars, wishlistItems, wishlistId, extracting, lastAddTime,
                 processingItems, favoriteItems, now, lf, dl, tg, ad, bgInbox, bg,
                 ghostVars>>
  /\ Schedule

GwRespond(r) == gwAnswered(r) /\ UNCHANGED writerVars

\* the same step, the refresh no longer counted among those under way
GwRespondLogged(r) ==
  /\ gwAnswered(r)
  /\ olderRefreshes' = olderRefreshes \ {r} /\ UNCHANGED <<idWriter, itemsWriter>>

\* the get-wishlist-data message is not delivered: the promise of
\* sendToBackground rejects, and refreshData chains .then without .catch
GwRejected(r) ==
  /\ gw[r].pc = "wishlists"
  /\ UNCHANGED <<writerVars, pureVars>>
  /\ gw' = [gw EXCEPT ![r] = idleGw]
  /\ UNCHANGED <<remoteVars, storageVars, reactVars, effectVars, now, lf, dl, tg, ad,
                 bgInbox, bg, ghostVars>>

\* --------------------------------------------------------------- deleteItem

\* ids a rendered row (or a stale handler argument) can name
KnownIds ==
  (1..Len(products)) \cup { wishlistItems[i].id : i \in 1..Len(wishlistItems) }

RemoteOutcomes == {"ok", "error", "throw"}

\* deleteItem, up to the await of the remote delete
DeleteStart(itemId) ==
  /\ ~loading /\ dl.pc = "idle"
  /\ UNCHANGED <<writerVars, pureVars>>
  /\ LET wid == resolveWishlistItemId(wishlistItems, itemId)
     IN  IF wid = NoId
         THEN /\ error' = ErrDelMissing
              /\ dl' = [pc |-> "idle", itemId |-> itemId, wid |-> NoId, res |-> "missing"]
         ELSE /\ error' = error
              /\ dl' = [pc |-> "remote", itemId |-> itemId, wid |-> wid, res |-> "none"]
  /\ UNCHANGED <<remoteVars, storageVars, loading, extracting, lastAddTime,
                 processingItems, favoriteItems, effectVars, now, gw, lf, tg, ad,
                 bgInbox, bg, ghostVars>>

\* wishlist_items.delete().eq("id", item.wishlist_item_id) executed by the store
DeleteRemote ==
  /\ dl.pc = "remote"
  /\ UNCHANGED <<writerVars, pureVars>>
  /\ \E out \in RemoteOutcomes :
       /\ dl' = [dl EXCEPT !.pc = "finish", !.res = out]
       /\ wishlist_items' = IF out = "ok"
                            THEN { m \in wishlist_items : m.id # dl.wid }
                            ELSE wishlist_items
  /\ UNCHANGED <<wishlistRow, products, favorites, nextMid, storageVars, reactVars,
                 effectVars, now, gw, lf, tg, ad, bgInbox, bg, ghostVars>>

\* deleteItem after the await: error branch, setItems(filter), or the catch
DeleteFinish ==
  /\ dl.pc = "finish"
  /\ UNCHANGED <<writerVars, pureVars>>
  /\ wishlistItems' = itemsAfterDelete(dl.res, wishlistItems, dl.itemId)
  /\ error' = IF dl.res = "ok" THEN error
              ELSE IF dl.res = "error" THEN ErrDelFailed ELSE ErrDelThrown
  /\ dl' = [dl EXCEPT !.pc = "idle", !.wid = NoId]
  /\ UNCHANGED <<remoteVars, wishlistId, dataNeedsRefresh, loading, extracting,
                 lastAddTime, processingItems, favoriteItems, now, gw, lf, tg, ad,
                 bgInbox, bg, ghostVars>>
  /\ Schedule

\* ----------------------------------------------------------- toggleFavorite

\* toggleFavorite, up to the await of the remote delete / insert
ToggleStart(productId) ==
  /\ ~loading /\ tg.pc = "idle"
  /\ UNCHANGED <<writerVars, pureVars>>
  /\ tg' = [pc |-> "remote", productId |-> productId,
            isFavorited |-> (productId \in favoriteItems), res |-> "none"]
  /\ UNCHANGED <<remoteVars, storageVars, reactVars, effectVars, now, gw, lf, dl, ad,
                 bgInbox, bg, ghostVars>>

\* favorites.delete()... or favorites.insert(...) executed by the store
ToggleRemote ==
  /\ tg.pc = "remote"
  /\ UNCHANGED <<writerVars, pureVars>>
  /\ \E out \in RemoteOutcomes :
       /\ tg' = [tg EXCEPT !.pc = "finish", !.res = out]
       /\ favorites' = IF out # "ok" THEN favorites
                       ELSE IF tg.isFavorited THEN favorites \ {tg.productId}
                       ELSE favorites \cup {tg.productId}
  /\ UNCHANGED <<wishlistRow, products, wishlist_items, nextMid, storageVars,
                 reactVars, effectVars, now, gw, lf, dl, ad, bgInbox, bg, ghostVars>>

\* toggleFavorite after the await
ToggleFinish ==
  /\ tg.pc = "finish"
  /\ UNCHANGED <<writerVars, pureVars>>
  /\ favoriteItems' =
       favoritesAfterToggle(tg.res, tg.isFavorited, favoriteItems, tg.productId)
  /\ error' = IF tg.res = "ok" THEN error
              ELSE IF tg.res = "throw" THEN ErrFavThrown
              ELSE IF tg.isFavorited THEN ErrFavRemove ELSE ErrFavAdd
  /\ tg' = [idleTg EXCEPT !.productId = tg.productId, !.res = tg.res]
  /\ UNCHANGED <<remoteVars, storageVars, loading, extracting, lastAddTime,
                 processingItems, effectVars, now, gw, lf, dl, ad, bgInbox, bg,
                 ghostVars>>

\* ----------------------------------------------------------- addCurrentPage

\* an invocation that ends without the finally block
addReturnBusy(res) ==
  /\ extracting' = extracting
  /\ ad' = [idleAd EXCEPT !.productId = ad.productId, !.res = res]

\* the finally block: setExtracting(false); the invocation is over
addReturn(res) ==
  /\ extracting' = FALSE
  /\ ad' = [idleAd EXCEPT !.productId = ad.productId, !.res = res]

\* addCurrentPage up to its first await: the debounce and the wishlistId guard
addCurrentPageEntry ==
  /\ IF debounced(now, lastAddTime)
     THEN UNCHANGED <<lastAddTime, error, extracting, ad>>
     ELSE /\ lastAddTime' = now
          /\ IF wishlistId = NoId
             THEN /\ error' = ErrNoWishlist
                  /\ UNCHANGED <<extracting, ad>>
             ELSE /\ extracting' = TRUE
                  /\ error' = NoError
                  /\ ad' = [idleAd EXCEPT !.pc = "tabs", !.wishlistId = wishlistId]
  /\ UNCHANGED <<remoteVars, storageVars, loading, processingItems, favoriteItems,
                 effectVars, now, gw, lf, dl, tg, bgInbox, bg>>

\* onClick of the "Add from page" button (rendered when not loading, enabled
\* when not extracting)
AddClick ==
  /\ ~loading /\ ~extracting /\ ad.pc = "idle"
  /\ UNCHANGED <<writerVars, pureVars>>
  /\ addCurrentPageEntry
  /\ UNCHANGED ghostVars

\* the same click, with the time of the invocation recorded
AddClickLogged ==
  /\ ~loading /\ ~extracting /\ ad.pc = "idle"
  /\ UNCHANGED <<writerVars, pureVars>>
  /\ addCurrentPageEntry
  /\ lastInvoke' = now /\ invokeBit' = ~invokeBit

\* chrome.tabs.query({active: true, currentWindow: true})
AddTabs ==
  /\ ad.pc = "tabs"
  /\ UNCHANGED <<writerVars, pureVars>>
  /\ \E out \in {"tab", "none", "throw"} : \E u \in Urls :
       IF out = "tab"
       THEN /\ ad' = [ad EXCEPT !.pc = "extract", !.url = u]
            /\ UNCHANGED <<error, extracting>>
       ELSE /\ error' = IF out = "none" THEN ErrNoTab ELSE ErrAddThrown
            /\ addReturn("failed")
  /\ UNCHANGED <<remoteVars, storageVars, loading, lastAddTime, processingItems,
                 favoriteItems, effectVars, now, gw, lf, dl, tg, bgInbox, bg,
                 ghostVars>>

\* sendToBackground({name: "extract-html"})
AddExtract ==
  /\ ad.pc = "extract"
  /\ UNCHANGED <<writerVars, pureVars>>
  /\ \E out \in {"ok", "fail", "throw"} :
       IF out = "ok"
       THEN /\ ad' = [ad EXCEPT !.pc = "product"]
            /\ UNCHANGED <<error, extracting>>
       ELSE /\ error' = IF out = "fail" THEN ErrExtract ELSE ErrAddThrown
            /\ addReturn("failed")
  /\ UNCHANGED <<remoteVars, storageVars, loading, lastAddTime, processingItems,
                 favoriteItems, effectVars, now, gw, lf, dl, tg, bgInbox, bg,
                 ghostVars>>

\* the row of "products" whose source_url is url, 0 when there is none
productByUrl(url) ==
  IF \E i \in 1..Len(products) : products[i].source_url = url
  THEN CHOOSE i \in 1..Len(products) : products[i].source_url = url
  ELSE 0

\* products.upsert({title, source_url: cleanUrl(tab.url)},
\*                 {onConflict: "source_url", ignoreDuplicates: false})
AddProductUpsert ==
  /\ ad.pc = "product"
  /\ UNCHANGED <<writerVars, pureVars>>
  /\ \E out \in RemoteOutcomes :
       IF out = "ok"
       THEN LET src == cleanUrl(ad.url)
                old == productByUrl(src)
                pid == IF old = 0 THEN Len(products) + 1 ELSE old
            IN  /\ products' =
                     IF old = 0
                     THEN Append(products,
                                 [ id |-> pid, source_url |-> src, image_url |-> NoImage,
                                   prices |-> << >>, created_at |-> now ])
                     ELSE products
                /\ ad' = [ad EXCEPT !.pc = "membership", !.productId = pid,
                                    !.isNewProduct =
                                       (products'[pid].created_at > now - NewProductWindowMs)]
                /\ UNCHANGED <<error, extracting>>
       ELSE /\ error' = IF out = "error" THEN ErrProduct ELSE ErrAddThrown
            /\ addReturn("failed")
            /\ UNCHANGED products
  /\ UNCHANGED <<wishlistRow, wishlist_items, favorites, nextMid, storageVars, loading,
                 lastAddTime, processingItems, favoriteItems, effectVars, now, gw, lf,
                 dl, tg, bgInbox, bg, ghostVars>>

\* the membership row of a product, as a set of at most one row
membershipOf(pid) == { m \in wishlist_items : m.product_id = pid }

\* wishlist_items.upsert({wishlist_id, product_id},
\*                       {onConflict: "wishlist_id,product_id", ignoreDuplicates: false})
AddMembershipUpsert ==
  /\ ad.pc = "membership"
  /\ UNCHANGED <<writerVars, pureVars>>
  /\ \E out \in {"ok", "23505", "error", "throw"} :
       IF out = "ok" /\ wishlistRow
       THEN LET old == membershipOf(ad.productId)
                row == IF old = {}
                       THEN [ id |-> nextMid, product_id |-> ad.productId,
                              created_at |-> nextMid ]
                       ELSE CHOOSE m \in old : TRUE
            IN  /\ wishlist_items' = wishlist_items \cup {row}
                /\ nextMid' = IF old = {} THEN nextMid + 1 ELSE nextMid
                /\ ad' = [ad EXCEPT !.pc = "details", !.mid = row.id,
                                    !.mcreated = row.created_at]
                /\ UNCHANGED <<error, extracting>>
       ELSE /\ error' = IF out = "23505" THEN ErrDuplicate
                        ELSE IF out = "throw" THEN ErrAddThrown ELSE ErrAddItem
            /\ addReturn("failed")
            /\ UNCHANGED <<wishlist_items, nextMid>>
  /\ UNCHANGED <<wishlistRow, products, favorites, storageVars, loading, lastAddTime,
                 processingItems, favoriteItems, effectVars, now, gw, lf, dl, tg,
                 bgInbox, bg, ghostVars>>

\* an add that inserts the placeholder before it looks at the result of the
\* details fetch
AddDetailsEager ==
  /\ ad.pc = "details"
  /\ UNCHANGED <<writerVars, pureVars>>
  /\ \E out \in RemoteOutcomes :
       LET newItem == [ id               |-> products[ad.productId].id,
                        wishlist_item_id |-> ad.mid,
                        image_url        |-> IF out = "ok"
                                             THEN products[ad.productId].image_url
                                             ELSE NoImage,
                        created_at       |-> ad.mcreated,
                        price            |-> NoPrice,
                        prices           |-> << >> ]
       IN  /\ wishlistItems' = prepend(newItem, wishlistItems)
           /\ processingItems' = processingItems \cup {newItem.id}
           /\ IF out = "ok"
              THEN /\ bgInbox' = IF ad.isNewProduct
                                 THEN [bgInbox EXCEPT ![ad.productId] = @ + 1]
                                 ELSE bgInbox
                   /\ addReturn("ok")
                   /\ UNCHANGED error
              ELSE /\ error' = IF out = "error" THEN ErrDetails ELSE ErrAddThrown
                   /\ addReturn("failed")
                   /\ UNCHANGED bgInbox
  /\ UNCHANGED <<remoteVars, wishlistId, dataNeedsRefresh, loading, lastAddTime,
                 favoriteItems, now, gw, lf, dl, tg, bg, ghostVars>>
  /\ Schedule

\* products.select(...).eq("id", productId).single(), then the prepend of the
\* placeholder, the pending flag and the fire-and-forget process-page-data
AddDetails ==
  /\ ad.pc = "details"
  /\ UNCHANGED <<writerVars, pureVars>>
  /\ \E out \in RemoteOutcomes :
       IF out = "ok"
       THEN LET newItem == [ id               |-> products[ad.productId].id,
                             wishlist_item_id |-> ad.mid,
                             image_url        |-> products[ad.productId].image_url,
                             created_at       |-> ad.mcreated,
                             price            |-> NoPrice,
                             prices           |-> << >> ]
            IN  /\ wishlistItems' = prepend(newItem, wishlistItems)
                /\ processingItems' = processingItems \cup {newItem.id}
                /\ bgInbox' = IF ad.isNewProduct
                              THEN [bgInbox EXCEPT ![ad.productId] = @ + 1]
                              ELSE bgInbox
                /\ addReturn("ok")
                /\ UNCHANGED error
       ELSE /\ error' = IF out = "error" THEN ErrDetails ELSE ErrAddThrown
            /\ addReturn("failed")
            /\ UNCHANGED <<wishlistItems, processingItems, bgInbox>>
  /\ UNCHANGED <<remoteVars, wishlistId, dataNeedsRefresh, loading, lastAddTime,
                 favoriteItems, now, gw, lf, dl, tg, bg, ghostVars>>
  /\ Schedule

\* ------------------------------------------------ process-page-data handler

\* handler: the required fields are present; the enrichment call starts
BgStart(p) ==
  /\ bgInbox[p] > 0 /\ bg[p].pc = "idle"
  /\ UNCHANGED <<writerVars, pureVars>>
  /\ bgInbox' = [bgInbox EXCEPT ![p] = @ - 1]
  /\ bg' = [bg EXCEPT ![p].pc = "extract"]
  /\ UNCHANGED <<remoteVars, storageVars, reactVars, effectVars, now, gw, lf, dl, tg,
                 ad, ghostVars>>

\* extractDataFromPageHTML: the API populates the product, or null on failure
\* (answered with success: false)
BgExtract(p) ==
  /\ bg[p].pc = "extract"
  /\ UNCHANGED <<writerVars, pureVars>>
  /\ \E ok \in BOOLEAN : \E amount \in Amounts :
       IF ok
       THEN /\ products' = [products EXCEPT
                 ![p].image_url = "img",
                 ![p].prices = Append(@, [amount |-> amount, created_at |-> Len(@) + 1])]
            /\ bg' = [bg EXCEPT ![p].pc = "wishlists"]
       ELSE /\ bg' = [bg EXCEPT ![p].pc = "reply", ![p].res = "failed"]
            /\ UNCHANGED products
  /\ UNCHANGED <<wishlistRow, wishlist_items, favorites, nextMid, storageVars,
                 reactVars, effectVars, now, gw, lf, dl, tg, ad, bgInbox, ghostVars>>

\* what the handler sends when refreshWishlistData has returned, an error of
\* the refresh having been caught and logged inside it: res.send({success: true})
refreshReturned(p) == [bg EXCEPT ![p] = [idleBg EXCEPT !.pc = "reply", !.res = "ok"]]

\* refreshWishlistData: the wishlists query; an error ends the refresh
BgWishlists(p) ==
  /\ bg[p].pc = "wishlists"
  /\ UNCHANGED <<writerVars, pureVars>>
  /\ \E fail \in BOOLEAN :
       bg' = IF wishlistRow /\ ~fail THEN [bg EXCEPT ![p].pc = "items"]
             ELSE refreshReturned(p)
  /\ UNCHANGED <<remoteVars, storageVars, reactVars, effectVars, now, gw, lf, dl, tg,
                 ad, bgInbox, ghostVars>>

\* refreshWishlistData: the wishlist_items query
BgItems(p) ==
  /\ bg[p].pc = "items"
  /\ UNCHANGED <<writerVars, pureVars>>
  /\ \E fail \in BOOLEAN :
       bg' = IF fail THEN refreshReturned(p)
             ELSE [bg EXCEPT ![p].pc = "set_id", ![p].data = selectWishlistItems]
  /\ UNCHANGED <<remoteVars, storageVars, reactVars, effectVars, now, gw, lf, dl, tg,
                 ad, bgInbox, ghostVars>>

\* await storage.set("wishlistId", wishlistData.id)
bgStoreId(p) ==
  /\ bg[p].pc = "set_id"
  /\ UNCHANGED pureVars
  /\ wishlistId' = WID
  /\ bg' = [bg EXCEPT ![p].pc = "set_items"]
  /\ UNCHANGED <<remoteVars, wishlistItems, dataNeedsRefresh, reactVars, now, gw, lf,
                 dl, tg, ad, bgInbox, ghostVars>>
  /\ Schedule

BgSetId(p) == bgStoreId(p) /\ UNCHANGED writerVars

\* the same step, recording which handler wrote
BgSetIdLogged(p) ==
  /\ bgStoreId(p)
  /\ idWriter' = [by |-> "process-page-data", n |-> p] /\ UNCHANGED <<itemsWriter, olderRefreshes>>

\* await storage.set("wishlistItems", formattedItems)
bgStoreItems(p) ==
  /\ bg[p].pc = "set_items"
  /\ UNCHANGED pureVars
  /\ wishlistItems' = formattedItems(bg[p].data)
  /\ bg' = [bg EXCEPT ![p].pc = "set_flag"]
  /\ UNCHANGED <<remoteVars, wishlistId, dataNeedsRefresh, reactVars, now, gw, lf,
                 dl, tg, ad, bgInbox, ghostVars>>
  /\ Schedule

BgSetItems(p) == bgStoreItems(p) /\ UNCHANGED writerVars

\* the same step, recording which handler wrote
BgSetItemsLogged(p) ==
  /\ bgStoreItems(p)
  /\ itemsWriter' = [by |-> "process-page-data", n |-> p] /\ UNCHANGED <<idWriter, olderRefreshes>>

\* await storage.set("dataNeedsRefresh", true); res.send({success: true})
bgStoreFlag(p) ==
  /\ bg[p].pc = "set_flag"
  /\ UNCHANGED pureVars
  /\ dataNeedsRefresh' = "true"
  /\ bg' = refreshReturned(p)
  /\ UNCHANGED <<remoteVars, wishlistItems, wishlistId, reactVars, now, gw, lf,
                 dl, tg, ad, bgInbox, ghostVars>>
  /\ Schedule

BgSetFlag(p) == bgStoreFlag(p) /\ UNCHANGED writerVars

\* the same step, recording the popup refreshes under way when the flag is set
BgSetFlagLogged(p) ==
  /\ bgStoreFlag(p)
  /\ olderRefreshes' = { r \in RefreshIds : gw[r].pc # "idle" }
  /\ UNCHANGED <<idWriter, itemsWriter>>

\* a response that makes the popup report the failure
BgDeliverReported(p) ==
  /\ bg[p].pc = "reply"
  /\ UNCHANGED <<writerVars, pureVars>>
  /\ bg' = [bg EXCEPT ![p] = idleBg]
  /\ error' = IF bg[p].res = "failed" THEN ErrAddThrown ELSE error
  /\ UNCHANGED <<remoteVars, storageVars, loading, extracting, lastAddTime,
                 processingItems, favoriteItems, effectVars, now, gw, lf, dl, tg,
                 ad, bgInbox, ghostVars>>

\* the response reaches the popup: the promise of sendToBackground resolves
\* and nothing is chained on its value
BgDeliver(p) ==
  /\ bg[p].pc = "reply"
  /\ UNCHANGED <<writerVars, pureVars>>
  /\ bg' = [bg EXCEPT ![p] = idleBg]
  /\ UNCHANGED <<remoteVars, storageVars, reactVars, effectVars, now, gw, lf, dl, tg,
                 ad, bgInbox, ghostVars>>

\* the message is not delivered: the promise rejects, .catch logs the error
BgRejected(p) ==
  /\ bgInbox[p] > 0
  /\ UNCHANGED <<writerVars, pureVars>>
  /\ bgInbox' = [bgInbox EXCEPT ![p] = @ - 1]
  /\ UNCHANGED <<remoteVars, storageVars, reactVars, effectVars, now, gw, lf, dl, tg,
                 ad, bg, ghostVars>>

\* ------------------------------------------------------------------- clock

Tick ==
  /\ now < StartTime + MaxTicks * TickMs
  /\ UNCHANGED <<writerVars, pureVars>>
  /\ now' = now + TickMs
  /\ UNCHANGED <<remoteVars, storageVars, reactVars, effectVars, procVars, ghostVars>>

\* a handler instance of get-wishlist-data takes a step
GwStep ==
  \/ \E r \in RefreshIds : GwWishlists(r)
  \/ \E r \in RefreshIds : GwItems(r)
  \/ \E r \in RefreshIds : GwSetId(r)
  \/ \E r \in RefreshIds : GwSetItems(r)
  \/ \E r \in RefreshIds : GwRespond(r)

\* the popup with addCurrentPage and the enrichment path
Next ==
  \/ RefreshEffect
  \/ ProcessingEffect
  \/ GwStep
  \/ AddClick
  \/ AddTabs
  \/ AddExtract
  \/ AddProductUpsert
  \/ AddMembershipUpsert
  \/ AddDetails
  \/ \E p \in ProductIds : BgStart(p)
  \/ \E p \in ProductIds : BgExtract(p)
  \/ \E p \in ProductIds : BgWishlists(p)
  \/ \E p \in ProductIds : BgItems(p)
  \/ \E p \in ProductIds : BgSetId(p)
  \/ \E p \in ProductIds : BgSetItems(p)
  \/ \E p \in ProductIds : BgSetFlag(p)
  \/ \E p \in ProductIds : BgDeliver(p)
  \/ \E p \in ProductIds : BgRejected(p)
  \/ Tick

Spec == Init /\ [][Next]_vars

\* the popup opened and left alone
NextOpen ==
  \/ RefreshEffect
  \/ ProcessingEffect
  \/ LoadFavorites
  \/ GwStep

SpecOpen == Init /\ [][NextOpen]_vars

\* the popup opened and left alone, the background page not always reachable
NextOffline ==
  \/ NextOpen
  \/ \E r \in RefreshIds : GwRejected(r)

SpecOffline == Init /\ [][NextOffline]_vars

\* the popup with deleteItem
NextDelete ==
  \/ RefreshEffect
  \/ ProcessingEffect
  \/ GwStep
  \/ \E itemId \in KnownIds : DeleteStart(itemId)
  \/ DeleteRemote
  \/ DeleteFinish

SpecDelete == Init /\ [][NextDelete]_vars

\* the popup with loadFavorites and toggleFavorite
NextFav ==
  \/ RefreshEffect
  \/ LoadFavorites
  \/ GwStep
  \/ \E productId \in KnownIds : ToggleStart(productId)
  \/ ToggleRemote
  \/ ToggleFinish

SpecFav == Init /\ [][NextFav]_vars

\* the popup with addCurrentPage, every invocation recorded
NextDebounce ==
  \/ RefreshEffect
  \/ ProcessingEffect
  \/ GwStep
  \/ AddClickLogged
  \/ AddTabs
  \/ AddExtract
  \/ AddProductUpsert
  \/ AddMembershipUpsert
  \/ AddDetails
  \/ Tick

SpecDebounce == Init /\ [][NextDebounce]_vars

\* the awaited calls of addCurrentPage: each promise settles
AddSettles ==
  \/ AddTabs
  \/ AddExtract
  \/ AddProductUpsert
  \/ AddMembershipUpsert
  \/ AddDetails

\* the same popup, where every call addCurrentPage awaits returns or throws
SpecAddSettles == Init /\ [][NextDebounce]_vars /\ WF_vars(AddSettles)

\* the popup with one add gesture and its enrichment, the refreshes under
\* way at the time dataNeedsRefresh is set recorded
NextFlag ==
  \/ RefreshEffect
  \/ ProcessingEffect
  \/ \E r \in RefreshIds : GwWishlists(r)
  \/ \E r \in RefreshIds : GwItems(r)
  \/ \E r \in RefreshIds : GwSetId(r)
  \/ \E r \in RefreshIds : GwSetItems(r)
  \/ \E r \in RefreshIds : GwRespondLogged(r)
  \/ AddClick
  \/ AddTabs
  \/ AddExtract
  \/ AddProductUpsert
  \/ AddMembershipUpsert
  \/ AddDetails
  \/ \E p \in ProductIds : BgStart(p)
  \/ \E p \in ProductIds : BgExtract(p)
  \/ \E p \in ProductIds : BgWishlists(p)
  \/ \E p \in ProductIds : BgItems(p)
  \/ \E p \in ProductIds : BgSetId(p)
  \/ \E p \in ProductIds : BgSetItems(p)
  \/ \E p \in ProductIds : BgSetFlagLogged(p)
  \/ \E p \in ProductIds : BgDeliver(p)
  \/ \E p \in ProductIds : BgRejected(p)

SpecFlag == Init /\ [][NextFlag]_vars

\* the handler's steps with its storage writes recorded
GwStepLogged ==
  \/ \E r \in RefreshIds : GwWishlists(r)
  \/ \E r \in RefreshIds : GwItems(r)
  \/ \E r \in RefreshIds : GwSetIdLogged(r)
  \/ \E r \in RefreshIds : GwSetItemsLogged(r)
  \/ \E r \in RefreshIds : GwRespond(r)

\* one add gesture and deletes, next to the popup refresh and the enrichment
\* refresh (the clock stands still: a second add would be debounced)
NextSync ==
  \/ RefreshEffect
  \/ ProcessingEffect
  \/ GwStepLogged
  \/ AddClick
  \/ AddTabs
  \/ AddExtract
  \/ AddProductUpsert
  \/ AddMembershipUpsert
  \/ AddDetails
  \/ \E p \in ProductIds : BgStart(p)
  \/ \E p \in ProductIds : BgExtract(p)
  \/ \E p \in ProductIds : BgWishlists(p)
  \/ \E p \in ProductIds : BgItems(p)
  \/ \E p \in ProductIds : BgSetIdLogged(p)
  \/ \E p \in ProductIds : BgSetItemsLogged(p)
  \/ \E p \in ProductIds : BgSetFlag(p)
  \/ \E p \in ProductIds : BgDeliver(p)
  \/ \E p \in ProductIds : BgRejected(p)
  \/ \E itemId \in KnownIds : DeleteStart(itemId)
  \/ DeleteRemote
  \/ DeleteFinish

SpecSync == Init /\ [][NextSync]_vars

\* ------------------------------------------- the badge component, alone

\* prices are amounts >= 0; an optional prop is a number or not passed
CurrentPrices == {0, 80, 89, 90, 91, 100, 101, 120}
PreviousPrices == {Undefined, 0, 100}
TargetPrices == {Undefined, 0, 100}
MaxBadgesValues == {Undefined, 0, 1, 2, 4}
HistoryPriceSets == { {100, 120}, {100, 115} }

\* priceHistory.map((p) => p.price) of the histories passed, oldest first
Histories ==
  UNION { [1..n -> S] : n \in 0..MaxHistory, S \in HistoryPriceSets }

\* the popup on a first run, with a wishlist row and nothing cached
popupAtRest == InitPopup /\ wishlistRow /\ wishlistItems = << >>

InitBadges ==
  /\ popupAtRest
  /\ props \in [ currentPrice : CurrentPrices, previousPrice : PreviousPrices,
                 priceHistory : Histories, targetPrice : TargetPrices,
                 maxBadges : MaxBadgesValues ]
  /\ badgeView = idleView
  /\ itemsData = << >> /\ formatted = idleFormat
  /\ request = noRequest /\ response = noResponse

\* one call of PriceDiscoveryBadges(props)
RenderBadges ==
  /\ ~badgeView.rendered
  /\ badgeView' = [ rendered |-> TRUE, badges |-> PriceDiscoveryBadges(props) ]
  /\ UNCHANGED <<remoteVars, storageVars, reactVars, effectVars, now, procVars,
                 ghostVars, writerVars, props, itemsData, formatted, request,
                 response>>

NextBadges == RenderBadges

SpecBadges == InitBadges /\ [][NextBadges]_vars

\* ------------------------------------------------ formattedItems, alone

PriceAmounts == {0, 5, 7}

\* the prices rows of one product in an order the store may return them: the
\* query orders wishlist_items only, the embedded prices come unordered
PriceLists ==
  { ps \in UNION { [1..n -> [amount : PriceAmounts, created_at : 1..MaxPrices]] :
                     n \in 0..MaxPrices } :
      \A i, j \in 1..Len(ps) : i # j => ps[i].created_at # ps[j].created_at }

InitFormat ==
  /\ popupAtRest
  /\ \E ps \in PriceLists, img \in {NoImage, "img"} :
       itemsData = << [ id |-> 1, created_at |-> 1,
                        products |-> [ id |-> 1, image_url |-> img, prices |-> ps ] ] >>
  /\ formatted = idleFormat
  /\ props = idleProps /\ badgeView = idleView
  /\ request = noRequest /\ response = noResponse

\* const formattedItems = itemsData.map(...)
FormatItems ==
  /\ ~formatted.done
  /\ formatted' = [ done |-> TRUE, items |-> formattedItems(itemsData) ]
  /\ UNCHANGED <<remoteVars, storageVars, reactVars, effectVars, now, procVars,
                 ghostVars, writerVars, props, badgeView, itemsData, request,
                 response>>

NextFormat == FormatItems

SpecFormat == InitFormat /\ [][NextFormat]_vars

\* ------------------------------------- the message handlers, called alone

ErrMissingData == "Missing required data"
ErrUserNotFound == "User not found"

\* req.body of a process-page-data message: whether html and userId are
\* there, and the itemId
PageBodies == [ html : BOOLEAN, itemId : {NoId} \cup ProductIds, userId : BOOLEAN ]

\* req.body of a get-wishlist-data message
ListBodies == [ userId : BOOLEAN ]

Requests ==
  [ name : {"process-page-data"}, body : PageBodies ]
    \cup [ name : {"get-wishlist-data"}, body : ListBodies ]

\* a check that does not look at html
missingPageIds(body) == body.itemId = NoId \/ ~body.userId

\* if (!html || !itemId || !userId)
missingPageData(body) == ~body.html \/ body.itemId = NoId \/ ~body.userId

\* if (!userId)
missingUser(body) == ~body.userId

\* one message, for a product that exists when it names one, and no answer yet
InitValidate ==
  /\ InitPopup
  /\ props = idleProps /\ badgeView = idleView
  /\ itemsData = << >> /\ formatted = idleFormat
  /\ request \in Requests
  /\ request.name = "process-page-data" =>
       request.body.itemId \in {NoId} \cup (1..Len(products))
  /\ response = noResponse

\* process-page-data, up to its first await
ReceivePageData ==
  /\ request.name = "process-page-data" /\ ~response.sent
  /\ IF missingPageData(request.body)
     THEN /\ response' = [ sent |-> TRUE, success |-> FALSE, error |-> ErrMissingData ]
          /\ UNCHANGED <<request, bg>>
     ELSE /\ bg[request.body.itemId].pc = "idle"
          /\ bg' = [bg EXCEPT ![request.body.itemId].pc = "extract"]
          /\ request' = noRequest
          /\ UNCHANGED response
  /\ UNCHANGED <<remoteVars, storageVars, reactVars, effectVars, now, gw, lf, dl, tg,
                 ad, bgInbox, ghostVars, writerVars, props, badgeView, itemsData,
                 formatted>>

\* get-wishlist-data, up to its first await
ReceiveListData(r) ==
  /\ request.name = "get-wishlist-data" /\ ~response.sent
  /\ IF missingUser(request.body)
     THEN /\ response' = [ sent |-> TRUE, success |-> FALSE, error |-> ErrUserNotFound ]
          /\ UNCHANGED <<request, gw>>
     ELSE /\ gw[r].pc = "idle"
          /\ gw' = [gw EXCEPT ![r] = [idleGw EXCEPT !.pc = "wishlists"]]
          /\ request' = noRequest
          /\ UNCHANGED response
  /\ UNCHANGED <<remoteVars, storageVars, reactVars, effectVars, now, lf, dl, tg,
                 ad, bgInbox, bg, ghostVars, writerVars, props, badgeView, itemsData,
                 formatted>>

\* one message received by its handler, and the handler run to its answer
NextValidate ==
  \/ ReceivePageData
  \/ \E r \in RefreshIds : ReceiveListData(r)
  \/ \E p \in ProductIds : BgExtract(p)
  \/ \E p \in ProductIds : BgWishlists(p)
  \/ \E p \in ProductIds : BgItems(p)
  \/ \E p \in ProductIds : BgSetId(p)
  \/ \E p \in ProductIds : BgSetItems(p)
  \/ \E p \in ProductIds : BgSetFlag(p)
  \/ \E p \in ProductIds : BgDeliver(p)
  \/ GwStep

SpecValidate == InitValidate /\ [][NextValidate]_vars

\* ================================================================= claims

progVars == <<remoteVars, storageVars, reactVars, effectVars, now, procVars>>

cached(itemId) == \E i \in 1..Len(wishlistItems) : wishlistItems[i].id = itemId

\* C1: a refresh for a user with no wishlist row fails (success = false, the
\* popup sets the load error) and no step of it writes wishlistItems or
\* wishlistId, whatever the cache held.
C1_RefreshWithoutWishlist ==
  [][\A r \in RefreshIds :
       (~wishlistRow /\ gw'[r] # gw[r]) =>
         /\ wishlistItems' = wishlistItems
         /\ wishlistId' = wishlistId
         /\ gw'[r].pc \in {"wishlists", "respond", "idle"}
         /\ ~gw'[r].ok
         /\ (gw[r].pc = "respond" => error' = ErrLoad)]_vars

C1_Witness ==
  /\ ~wishlistRow /\ error = ErrLoad /\ wishlistItems # << >>
  /\ \A r \in RefreshIds : gw[r].pc = "idle"

\* C2: no reachable state shows wishlistId written by a refresh while
\* wishlistItems still holds content that this refresh did not produce.
C2_AtomicReplace ==
  /\ \A r \in RefreshIds :
       gw[r].pc = "set_items" => wishlistItems = formattedItems(gw[r].data)
  /\ \A p \in ProductIds :
       bg[p].pc = "set_items" => wishlistItems = formattedItems(bg[p].data)

\* C3: the membership upsert of a page whose (wishlistId, productId) row
\* already exists ends the add with an error: the cache and the pending set
\* are unchanged and no enrichment is requested.
C3_DuplicateRejected ==
  [][(ad.pc = "membership" /\ membershipOf(ad.productId) # {} /\ ad' # ad) =>
       /\ ad'.pc = "idle" /\ ad'.res = "failed"
       /\ error' # NoError
       /\ UNCHANGED <<wishlistItems, processingItems, bgInbox>>]_vars

\* two URLs that differ at most in their query string
SameButQuery(u, v) == u.base = v.base

\* C4: the store never holds two product rows whose source URLs differ at
\* most in the query string, and the row an add resolved for its page is the
\* one row for that page's URL without the query.
C4_ProductIdentity ==
  /\ \A i, j \in 1..Len(products) :
       SameButQuery(products[i].source_url, products[j].source_url) => i = j
  /\ ad.pc \in {"membership", "details"} =>
       /\ ad.productId \in 1..Len(products)
       /\ SameButQuery(products[ad.productId].source_url, ad.url)
       /\ products[ad.productId].source_url.query = ""

C4_Witness ==
  /\ ad.pc = "membership"
  /\ ad.url.query # ""
  /\ products[ad.productId].created_at < now

\* C5: the step that completes a successful add puts the new item first, with
\* price null and no prices, flags its id as pending, and keeps the previous
\* entries behind it in their order.
C5_PlaceholderFirst ==
  [][(ad.pc = "details" /\ ad'.res = "ok") =>
       /\ Len(wishlistItems') = Len(wishlistItems) + 1
       /\ wishlistItems'[1].id = ad.productId
       /\ wishlistItems'[1].wishlist_item_id = ad.mid
       /\ wishlistItems'[1].price = NoPrice
       /\ wishlistItems'[1].prices = << >>
       /\ ad.productId \in processingItems'
       /\ Tail(wishlistItems') = wishlistItems]_vars

C5_Witness ==
  /\ ad.res = "ok"
  /\ Len(wishlistItems) >= 2
  /\ wishlistItems[1].id = ad.productId
  /\ wishlistItems[1].price = NoPrice
  /\ ad.productId \in processingItems

\* C6: once the [items] effect has run for the current cache, no pending id
\* has a cached entry with a non-null image_url.
C6_PendingCleared ==
  ~procEffectDue =>
    \A p \in processingItems :
      \A i \in 1..Len(wishlistItems) :
        wishlistItems[i].id = p => wishlistItems[i].image_url = NoImage

C6_Witness ==
  /\ ad.res = "ok" /\ ~procEffectDue
  /\ ad.productId \notin processingItems
  /\ \E i \in 1..Len(wishlistItems) :
       wishlistItems[i].id = ad.productId /\ wishlistItems[i].image_url # NoImage

\* the entry deleteItem would find is absent or has no wishlist_item_id
MissingReference(itemId) ==
  \A i \in 1..Len(wishlistItems) :
    (wishlistItems[i].id = itemId /\ \A j \in 1..(i - 1) : wishlistItems[j].id # itemId)
      => wishlistItems[i].wishlist_item_id = NoId

\* C7: deleteItem on an id whose entry is absent or lacks wishlist_item_id
\* sets the missing-reference error, issues no remote delete and leaves the
\* cache and the membership rows unchanged.
C7_MissingReference ==
  [][(dl.pc = "idle" /\ dl' # dl /\ MissingReference(dl'.itemId)) =>
       /\ dl'.pc = "idle"
       /\ error' = ErrDelMissing
       /\ UNCHANGED <<wishlistItems, wishlist_items>>]_vars

C7_Witness ==
  /\ dl.pc = "idle" /\ dl.res = "missing" /\ error = ErrDelMissing
  /\ cached(dl.itemId)

\* C8: deleteItem changes the cache only in the step that handles a
\* successful remote delete, when the membership row is already gone; after
\* an error or a throw the cache is what it was and an error is set.
C8_RemoteFirst ==
  [][(dl' # dl) =>
       IF dl.pc = "finish" /\ dl.res = "ok"
       THEN /\ wishlistItems' = filterOut(wishlistItems, dl.itemId)
            /\ \A m \in wishlist_items : m.id # dl.wid
       ELSE /\ wishlistItems' = wishlistItems
            /\ (dl.pc = "finish" => error' \in {ErrDelFailed, ErrDelThrown})]_vars

C8_Witness ==
  /\ dl.pc = "idle" /\ dl.res = "error" /\ error = ErrDelFailed
  /\ cached(dl.itemId)

\* C9: toggleFavorite changes the local favorite set only in the step that
\* handles a successful remote call; after a failure the set is what it was
\* and an error message is set.
C9_FavoriteAfterRemote ==
  [][(tg' # tg) =>
       IF tg.pc = "finish" /\ tg.res = "ok"
       THEN favoriteItems' = IF tg.isFavorited
                             THEN favoriteItems \ {tg.productId}
                             ELSE favoriteItems \cup {tg.productId}
       ELSE /\ favoriteItems' = favoriteItems
            /\ (tg.pc = "finish" =>
                  error' \in {ErrFavRemove, ErrFavAdd, ErrFavThrown})]_vars

C9_Witness ==
  /\ tg.pc = "idle" /\ tg.res = "error" /\ error = ErrFavAdd
  /\ tg.productId \notin favoriteItems

\* C10 as stated: an invocation less than 1000 ms after the previous
\* invocation changes nothing.
C10_SecondWithinWindow ==
  [][(invokeBit' # invokeBit /\ lastInvoke # 0 /\ now - lastInvoke < DebounceMs) =>
       UNCHANGED progVars]_vars

\* C10: an invocation less than 1000 ms after the last invocation that passed
\* the debounce changes nothing and issues no request, and only an invocation
\* outside that window sets lastAddTime or starts an add.
C10_Debounce ==
  [][/\ (invokeBit' # invokeBit /\ now - lastAddTime < DebounceMs) =>
          UNCHANGED progVars
     /\ (lastAddTime' # lastAddTime \/ (ad.pc = "idle" /\ ad'.pc # "idle")) =>
          now - lastAddTime >= DebounceMs]_vars

C10_Witness ==
  /\ lastAddTime # 0
  /\ lastInvoke > lastAddTime
  /\ lastInvoke - lastAddTime < DebounceMs

\* the most recent entry of a price history, null for an empty one
latestAmount(prices) ==
  IF prices = << >> THEN NoPrice
  ELSE prices[CHOOSE i \in 1..Len(prices) :
                \A j \in 1..Len(prices) : prices[j].created_at <= prices[i].created_at].amount

\* C11: every formatted cache entry has as price the amount of the most
\* recent row of its price history, null when the history is empty, whatever
\* the order of the rows and whatever the amount.
C11_PriceIsLatest ==
  formatted.done =>
    \A i \in 1..Len(formatted.items) :
      formatted.items[i].price = latestAmount(formatted.items[i].prices)

\* ---- badges: what the rendered list shows, stated from the props

hasBadge(key) == \E i \in 1..Len(badgeView.badges) : badgeView.badges[i].key = key
badgeWith(key) ==
  badgeView.badges[CHOOSE i \in 1..Len(badgeView.badges) : badgeView.badges[i].key = key]
\* every badge that qualifies is shown: four slots
allShown == badgeView.rendered /\ props.maxBadges = 4

\* the last n points of the history passed, n = min(k, length)
lastPoints(k) ==
  { i \in 1..Len(props.priceHistory) : i > Len(props.priceHistory) - k }
RECURSIVE sumAt(_)
sumAt(I) ==
  IF I = {} THEN 0
  ELSE LET i == CHOOSE x \in I : TRUE IN props.priceHistory[i] + sumAt(I \ {i})

targetQualifies ==
  /\ props.targetPrice # Undefined /\ props.targetPrice # 0
  /\ props.currentPrice <= props.targetPrice
dealQualifies ==
  /\ Len(props.priceHistory) >= 3
  /\ 10 * props.currentPrice * Cardinality(lastPoints(5)) <= 9 * sumAt(lastPoints(5))
changeQualifies ==
  /\ props.previousPrice # Undefined /\ props.previousPrice # 0
  /\ props.previousPrice # props.currentPrice
volatilityQualifies ==
  /\ Len(props.priceHistory) >= 7
  /\ \E i, j \in lastPoints(7) :
       100 * (props.priceHistory[i] - props.priceHistory[j]) > 15 * props.priceHistory[j]

\* C12 as stated: the target badge is shown iff targetPrice was passed and
\* currentPrice <= targetPrice.
C12_TargetWhenSet ==
  allShown =>
    (hasBadge("target-reached") <=>
       (props.targetPrice # Undefined /\ props.currentPrice <= props.targetPrice))

\* C12: the target badge is shown iff targetPrice was passed, is not 0, and
\* currentPrice <= targetPrice; a shown target badge has priority 1.
C12_TargetReached ==
  /\ allShown => (hasBadge("target-reached") <=> targetQualifies)
  /\ (badgeView.rendered /\ hasBadge("target-reached")) =>
       /\ targetQualifies
       /\ badgeWith("target-reached").priority = 1

C12_Witness ==
  /\ allShown /\ props.currentPrice = 90 /\ props.targetPrice = 100
  /\ hasBadge("target-reached")

\* C13: the deal badge is shown iff the history has at least 3 points and
\* currentPrice <= 0.9 * mean of its last min(5, length) points; it has
\* priority 2; with fewer than 3 points it is never shown.
C13_DealAlert ==
  /\ allShown => (hasBadge("deal-alert") <=> dealQualifies)
  /\ (badgeView.rendered /\ hasBadge("deal-alert")) =>
       /\ Len(props.priceHistory) >= 3
       /\ badgeWith("deal-alert").priority = 2
  /\ (allShown /\ props.priceHistory = <<100, 100, 100, 100, 100>>) =>
       /\ props.currentPrice = 89 => hasBadge("deal-alert")
       /\ props.currentPrice = 91 => ~hasBadge("deal-alert")

C13_Witness ==
  /\ allShown /\ props.priceHistory = <<100, 100, 100, 100, 100>>
  /\ props.currentPrice = 89 /\ hasBadge("deal-alert")

\* |current - previous| / previous * 100 rounded to tenths, halves up, as
\* "<units>.<tenth>"
percentDigits ==
  LET d == props.currentPrice - props.previousPrice
      m == IF d < 0 THEN -d ELSE d
      t == (2000 * m + props.previousPrice) \div (2 * props.previousPrice)
  IN  ToString(t \div 10) \o "." \o ToString(t % 10)

favorableStyle == "bg-green-100 text-green-800 border-green-300"
unfavorableStyle == "bg-red-100 text-red-800 border-red-300"

\* what C14 says of a shown price-change badge
changeBadgeAsClaimed ==
  LET b == badgeWith("price-change") IN
  /\ b.priority = 3
  /\ props.currentPrice < props.previousPrice =>
       b.className = favorableStyle /\ b.text = "-" \o percentDigits \o "%"
  /\ props.currentPrice > props.previousPrice =>
       b.className = unfavorableStyle /\ b.text = "+" \o percentDigits \o "%"
  /\ (props.previousPrice = 100 /\ props.currentPrice = 80) => b.text = "-20.0%"
  /\ (props.previousPrice = 100 /\ props.currentPrice = 120) => b.text = "+20.0%"

\* C14 as stated: the price-change badge is shown iff previousPrice was
\* passed and differs from currentPrice.
C14_ChangeWhenSet ==
  allShown =>
    (hasBadge("price-change") <=>
       (props.previousPrice # Undefined /\ props.previousPrice # props.currentPrice))

\* C14: the price-change badge is shown iff previousPrice was passed, is not
\* 0, and differs from currentPrice; a decrease is styled favorable with a
\* label without "+", an increase unfavorable with a label starting with "+";
\* 100 -> 80 reads "-20.0%" and 100 -> 120 reads "+20.0%".
C14_PriceChange ==
  /\ allShown => (hasBadge("price-change") <=> changeQualifies)
  /\ (badgeView.rendered /\ hasBadge("price-change")) =>
       changeQualifies /\ changeBadgeAsClaimed

C14_Witness ==
  /\ allShown /\ props.previousPrice = 100 /\ props.currentPrice = 120
  /\ hasBadge("price-change") /\ badgeWith("price-change").text = "+20.0%"

\* C15: the volatility badge is shown iff the history has at least 7 points
\* and (max - min) / min * 100 > 15 over its last 7 points; it has priority 4;
\* with fewer than 7 points it is never shown.
C15_Volatility ==
  /\ allShown => (hasBadge("volatility") <=> volatilityQualifies)
  /\ (badgeView.rendered /\ hasBadge("volatility")) =>
       /\ Len(props.priceHistory) >= 7
       /\ badgeWith("volatility").priority = 4

C15_Witness ==
  /\ allShown /\ Len(props.priceHistory) = 7 /\ hasBadge("volatility")
  /\ \E i \in 1..7 : props.priceHistory[i] = 120

badgeKeys == <<"target-reached", "deal-alert", "price-change", "volatility">>
qualifies(key) ==
  \/ key = "target-reached" /\ targetQualifies
  \/ key = "deal-alert" /\ dealQualifies
  \/ key = "price-change" /\ changeQualifies
  \/ key = "volatility" /\ volatilityQualifies
qualifyingKeys == SelectSeq(badgeKeys, qualifies)
slots == IF props.maxBadges = Undefined THEN 2 ELSE props.maxBadges
shownKeys == [i \in 1..Len(badgeView.badges) |-> badgeView.badges[i].key]

\* C16: the rendered list is the first min(maxBadges, number qualifying) of
\* the qualifying badges in ascending priority, no key twice; with maxBadges 2
\* and all four qualifying it is [target-reached, deal-alert]; with none
\* qualifying nothing is rendered.
C16_Selection ==
  badgeView.rendered =>
    /\ shownKeys = SubSeq(qualifyingKeys, 1,
                          IF slots < Len(qualifyingKeys) THEN slots
                          ELSE Len(qualifyingKeys))
    /\ \A i, j \in 1..Len(shownKeys) :
         i < j => badgeView.badges[i].priority < badgeView.badges[j].priority
    /\ (props.maxBadges = 2 /\ Len(qualifyingKeys) = 4) =>
         shownKeys = <<"target-reached", "deal-alert">>
    /\ qualifyingKeys = << >> => badgeView.badges = << >>

C16_Witness ==
  /\ badgeView.rendered /\ props.maxBadges = 2 /\ Len(qualifyingKeys) = 4
  /\ shownKeys = <<"target-reached", "deal-alert">>

\* no handler, gesture, message or effect is pending
quiescent ==
  /\ \A r \in RefreshIds : gw[r].pc = "idle"
  /\ \A p \in ProductIds : bg[p].pc = "idle" /\ bgInbox[p] = 0
  /\ dl.pc = "idle" /\ ad.pc = "idle"
  /\ ~loading /\ ~extracting /\ ~effectDue /\ ~procEffectDue

cachedProductIds == { wishlistItems[i].id : i \in 1..Len(wishlistItems) }
memberProductIds == { m.product_id : m \in wishlist_items }

\* C18: at quiescence, for a user who has a wishlist and with no error
\* showing, the product ids in the local cache are exactly the products with
\* a membership row in the user's wishlist.
C18_CacheMatchesRemote ==
  (quiescent /\ wishlistRow /\ error = NoError) =>
    cachedProductIds = memberProductIds

\* no refresh handler is running
refreshesDone ==
  /\ \A r \in RefreshIds : gw[r].pc = "idle"
  /\ \A p \in ProductIds : bg[p].pc = "idle"

\* C19: once the refreshes have finished, wishlistId and wishlistItems were
\* last written by the same refresh.
C19_LastWriteWins ==
  refreshesDone => idWriter = itemsWriter

\* a step of the add gesture that ends it in failure
addFails == ad.pc # "idle" /\ ad'.pc = "idle" /\ ad'.res = "failed"

\* C20: a step of the add gesture changes the local cache only when the
\* details fetch has just succeeded, after the product and the membership
\* upserts of this gesture succeeded (their rows exist); a step that ends the
\* gesture in failure leaves the cache and the pending set unchanged and sets
\* one error message.
C20_CacheAfterRemote ==
  [][ad' # ad =>
       /\ (wishlistItems' # wishlistItems \/ processingItems' # processingItems) =>
            /\ ad.pc = "details" /\ ad'.res = "ok"
            /\ ad.productId \in 1..Len(products)
            /\ \E m \in wishlist_items : m.id = ad.mid /\ m.product_id = ad.productId
       /\ addFails =>
            /\ UNCHANGED <<wishlistItems, processingItems>>
            /\ error' \in {ErrNoTab, ErrExtract, ErrProduct, ErrDuplicate, ErrAddItem,
                           ErrDetails, ErrAddThrown}]_vars

C20_Witness ==
  /\ ad.pc = "idle" /\ ad.res = "failed" /\ error = ErrDetails
  /\ membershipOf(ad.productId) # {}
  /\ ad.productId \notin cachedProductIds

\* the list is in descending order of membership creation time
newestFirst(items) ==
  \A i, j \in 1..Len(items) : i < j => items[i].created_at >= items[j].created_at

\* a step in which a refresh writes the list
refreshWrites ==
  \/ \E r \in RefreshIds : gw[r].pc = "set_items" /\ gw'[r].pc # "set_items"
  \/ \E p \in ProductIds : bg[p].pc = "set_items" /\ bg'[p].pc # "set_items"

\* a step in which the add gesture ends in success
addSucceeds == ad.pc # "idle" /\ ad'.pc = "idle" /\ ad'.res = "ok"

\* C23: the list a refresh writes is ordered by membership creation time,
\* most recent first, and a successful add of the current page keeps an
\* ordered list ordered.
C23_NewestFirst ==
  [][/\ refreshWrites => newestFirst(wishlistItems')
     /\ (addSucceeds /\ newestFirst(wishlistItems)) => newestFirst(wishlistItems')]_vars

\* C26: no two entries of the local cache have the same product id.
C26_UniqueProducts ==
  \A i, j \in 1..Len(wishlistItems) :
    i # j => wishlistItems[i].id # wishlistItems[j].id

\* the entries a step puts into the cache
writtenEntries ==
  { wishlistItems'[i] : i \in 1..Len(wishlistItems') }
    \ { wishlistItems[i] : i \in 1..Len(wishlistItems) }

\* C27: every entry written to the local cache has a product id and a
\* membership id, and the membership id is that of the row which links the
\* product to the wishlist when the entry is written.
C27_EntryNamesMembership ==
  [][\A e \in writtenEntries :
       /\ e.id # NoId /\ e.wishlist_item_id # NoId
       /\ \E m \in wishlist_items' :
            m.id = e.wishlist_item_id /\ m.product_id = e.id]_vars

\* a step in which addCurrentPage is invoked and returns before its first await
addRejected ==
  /\ (lastInvoke' # lastInvoke \/ invokeBit' # invokeBit)
  /\ ad'.pc = "idle"

\* C30: an invocation of addCurrentPage that sets the extracting flag resets
\* it in the end, whichever way it leaves; an invocation turned away by the
\* debounce or by the missing wishlistId does not set the flag.
C30_ExtractingReset ==
  /\ extracting ~> ~extracting
  /\ [][addRejected => ~extracting']_vars
  /\ [](ad.pc = "idle" => ~extracting)

C30_Witness ==
  ad.pc = "idle" /\ ad.res = "failed" /\ error = ErrAddThrown /\ ~extracting

\* the last refresh answered with success and an empty list, and none is running
emptyLoaded ==
  /\ wishlistItems = << >> /\ wishlistId = WID
  /\ dataNeedsRefresh = "false" /\ error = NoError
  /\ \A r \in RefreshIds : gw[r].pc = "idle"

\* C28: for an empty wishlist, once a refresh has answered with success and
\* an empty list, loading is false and the popup, left alone and with
\* dataNeedsRefresh not set, starts no further refresh.
C28_EmptySettles ==
  [][emptyLoaded => (~loading /\ \A r \in RefreshIds : gw'[r].pc = "idle")]_vars

\* steps in which the enrichment of product p fails: the handler answers
\* success: false, that answer reaches the popup, or the message is rejected
enrichmentFails(p) ==
  \/ bg[p].pc # "reply" /\ bg'[p].pc = "reply" /\ bg'[p].res = "failed"
  \/ bg[p].pc = "reply" /\ bg[p].res = "failed" /\ bg'[p].pc = "idle"
  \/ bgInbox'[p] < bgInbox[p] /\ bg'[p] = bg[p]

\* C21: the enrichment is fire-and-forget: the step that sends the
\* process-page-data message ends the add in success and sets no error,
\* and a step in which the enrichment fails or the message is rejected leaves
\* the cache (with the placeholder), the error message and the add untouched.
C21_FireAndForget ==
  [][\A p \in ProductIds :
       /\ bgInbox'[p] > bgInbox[p] =>
            /\ ad'.pc = "idle" /\ ad'.res = "ok" /\ ~extracting' /\ error' = error
            /\ wishlistItems'[1].id = p
       /\ enrichmentFails(p) =>
            UNCHANGED <<wishlistItems, error, ad, extracting, processingItems>>]_vars

C21_Witness ==
  \E p \in ProductIds :
    /\ bg[p].pc = "reply" /\ bg[p].res = "failed"
    /\ \E i \in 1..Len(wishlistItems) :
         wishlistItems[i].id = p /\ wishlistItems[i].image_url = NoImage
    /\ error = NoError /\ ad.pc = "idle" /\ ad.res = "ok"

\* C29: process-page-data answers success: true only when, after the
\* enrichment call, its refresh ran to the end: the list was rewritten and
\* this step sets dataNeedsRefresh to true.
C29_SuccessMeansRefreshed ==
  [][\A p \in ProductIds :
       (bg[p].pc # "reply" /\ bg'[p].pc = "reply" /\ bg'[p].res = "ok") =>
         (bg[p].pc = "set_flag" /\ dataNeedsRefresh' = "true")]_vars

\* a step in which refresh r is over, its answer a success or not
refreshEnds(r) == gw[r].pc # "idle" /\ gw'[r].pc = "idle"
refreshSucceeded(r) == gw[r].pc = "respond" /\ gw[r].ok

\* C24: a failed remote call ends its operation with one error message and
\* the indicator cleared: a refresh that is over leaves loading false, with
\* the load error showing unless it succeeded; a failed add leaves extracting
\* false and one of its messages; a failed delete or favorite toggle sets its
\* message.
C24_FailuresSurface ==
  [][/\ \A r \in RefreshIds :
          refreshEnds(r) =>
            /\ ~loading'
            /\ ~refreshSucceeded(r) => error' = ErrLoad
     /\ addFails =>
          /\ ~extracting'
          /\ error' \in {ErrNoTab, ErrExtract, ErrProduct, ErrDuplicate, ErrAddItem,
                         ErrDetails, ErrAddThrown}
     /\ (dl.pc = "finish" /\ dl'.pc = "idle" /\ dl.res # "ok") =>
          error' \in {ErrDelFailed, ErrDelThrown}
     /\ (tg.pc = "finish" /\ tg'.pc = "idle" /\ tg.res # "ok") =>
          error' \in {ErrFavRemove, ErrFavAdd, ErrFavThrown}]_vars

\* C22: once the enrichment has set dataNeedsRefresh to true, the flag is
\* cleared only by a step that starts a refresh or by the answer of a
\* refresh that started after the flag was set; a refresh already under way
\* when the flag was set does not clear it.
C22_FlagForcesRefresh ==
  [][(dataNeedsRefresh = "true" /\ dataNeedsRefresh' # "true") =>
       \/ \E r \in RefreshIds : gw[r].pc = "idle" /\ gw'[r].pc = "wishlists"
       \/ \E r \in RefreshIds :
            gw[r].pc = "respond" /\ gw'[r].pc = "idle" /\ r \notin olderRefreshes]_vars

\* the message lacks a field its handler requires
lacksField ==
  \/ /\ request.name = "process-page-data"
     /\ (~request.body.html \/ request.body.itemId = NoId \/ ~request.body.userId)
  \/ /\ request.name = "get-wishlist-data"
     /\ ~request.body.userId

\* C25: a message that lacks a required field is answered with success:
\* false, and no step taken for it queries or changes the store, starts the
\* enrichment or a refresh, or writes local storage.
C25_RejectedBeforeRemote ==
  [][lacksField =>
       /\ UNCHANGED <<remoteVars, storageVars, bg, gw, bgInbox>>
       /\ response' # response => (response'.sent /\ ~response'.success)]_vars

C25_Witness ==
  /\ request.name = "process-page-data"
  /\ ~request.body.html /\ request.body.itemId # NoId /\ request.body.userId
  /\ response.sent /\ ~response.success /\ response.error = ErrMissingData
  /\ \A p \in ProductIds : bg[p].pc = "idle"

====
